---- MODULE Spec2Model ----
(***************************************************************************)
(* State machine of the mediasoup signaling server (src/unnamed/part_000). *)
(*                                                                         *)
(* The server keeps ONE set of module-level variables (router,             *)
(* producerTransport, consumerTransport, producer, consumer) shared by     *)
(* every socket.  Each socket.on handler is an async function: it runs     *)
(* synchronously up to its first await of a mediasoup call, the call is    *)
(* sent to the worker over its channel (a FIFO), and the rest of the       *)
(* handler runs when the worker answers.  A handler is therefore modelled  *)
(* by a start action (the synchronous prefix, which captures the values    *)
(* the call's arguments are evaluated to) and the EngineStep action (the   *)
(* worker's answer and the whole continuation of the handler).             *)
(*                                                                         *)
(* mediasoup itself is an external library: its objects are modelled by    *)
(* their documented behaviour (transport.close() closes the transport's    *)
(* producers and consumers and emits "transportclose" on them; a consumer  *)
(* is closed by the worker's "producerclose" notification; connect() is    *)
(* accepted once per transport; produce()/consume() do not look at the     *)
(* DTLS state).                                                            *)
(***************************************************************************)
EXTENDS Integers, Sequences, FiniteSets, TLC

\* ------------------------------------------------------------------ bounds
MaxTransports == 2
MaxProducers == 1
MaxConsumers == 1
MaxPending == 2
MaxProducersAlone == 2

\* ---------------------------------------------------------------- domains
Peers == {"A", "B"}
Kinds == {"audio", "video"}

\* mediaCodecs: the router's codec list, one codec per kind.
mediaCodecs ==
    { [kind |-> "audio", mimeType |-> "audio/opus"],
      [kind |-> "video", mimeType |-> "video/VP8"] }

\* The rtpCapabilities a peer may declare: the codecs it can decode.
CapSets == SUBSET { c.mimeType : c \in mediaCodecs }

CodecOf(kind) == (CHOOSE c \in mediaCodecs : c.kind = kind).mimeType

VARIABLES
    proc,               \* "up" | "exited": the node process
    worker,             \* "alive" | "died": the mediasoup worker
    exitTimer,          \* TRUE while the timer that ends the process is armed
    sockets,            \* [Peers -> "idle" | "connecting" | "ready" | "gone"]
    emitted,            \* [Peers -> the events the server emitted to the socket]
    router,             \* id of the router the variable holds, 0 = unassigned
    transports,         \* Seq of [router, state, sender]; id = index
    producers,          \* Seq of [transport, kind, closed]
    consumers,          \* Seq of [transport, producer, kind, paused, paused0, closed]
    producerTransport,  \* transport id, 0 = undefined
    consumerTransport,  \* transport id, 0 = undefined
    producer,           \* producer id, 0 = undefined
    consumer,           \* consumer id, 0 = undefined
    pending,            \* FIFO of mediasoup calls awaiting the worker's answer
    notes,              \* consumers the worker closed, "producerclose" not yet delivered
    last                \* the handler step taken last and what it answered

vars == << proc, worker, exitTimer, sockets, emitted, router, transports,
           producers, consumers,
           producerTransport, consumerTransport, producer, consumer,
           pending, notes, last >>

globals == << router, producerTransport, consumerTransport, producer, consumer >>
engine == << transports, producers, consumers, notes >>

\* ------------------------------------------------------ records and helpers
\* A call in flight: op, the socket whose handler made it, and the values its
\* arguments were evaluated to when the handler reached the await.
Call(op, peer, a, b, kind, f) ==
    [op |-> op, peer |-> peer, a |-> a, b |-> b, kind |-> kind, f |-> f]

\* What a handler step did: out is the branch taken, resp the callback's
\* payload shape ("none" when the callback was not invoked), id the entity the
\* step answered with or acted on and pid the payload's producerId (0 =
\* undefined), err the error carried.
Step(op, out, resp, id, pid, err) ==
    [op |-> op, out |-> out, resp |-> resp, id |-> id, pid |-> pid, err |-> err]

NoResp(op, out) == Step(op, out, "none", 0, 0, "")

TransportIds == 1..Len(transports)
ProducerIds == 1..Len(producers)
ConsumerIds == 1..Len(consumers)

TransportClosed(t) == transports[t].state = "closed"

\* An unhandled promise rejection of an async socket handler: node either
\* only warns about it or ends the process, depending on its version and flags.
UnhandledRejection == proc' \in {"up", "exited"}

\* ------------------------------------------------------------------- Init
\* The state after the module is loaded: the worker is created, no socket has
\* connected, every module-level variable is unassigned.
Init ==
    /\ proc = "up"
    /\ worker = "alive"
    /\ exitTimer = FALSE
    /\ sockets = [p \in Peers |-> "idle"]
    /\ emitted = [p \in Peers |-> {}]
    /\ router = 0
    /\ transports = << >>
    /\ producers = << >>
    /\ consumers = << >>
    /\ producerTransport = 0
    /\ consumerTransport = 0
    /\ producer = 0
    /\ consumer = 0
    /\ pending = << >>
    /\ notes = {}
    /\ last = NoResp("load", "loaded")

Ready(p) == proc = "up" /\ sockets[p] = "ready"
CanAwait == Len(pending) < MaxPending

\* ------------------------------------------------------------- connection
\* peers.on("connection"), up to its await: the greeting is emitted (the only
\* socket.emit of the server), the
\* disconnect handler registered, and worker.createRouter is called.  The
\* request handlers are registered only after that await.
Connection(p) ==
    /\ proc = "up"
    /\ sockets[p] = "idle"
    /\ p = "B" => sockets["A"] # "idle"    \* "A" names the peer that connects first
    /\ CanAwait
    /\ sockets' = [sockets EXCEPT ![p] = "connecting"]
    /\ emitted' = [emitted EXCEPT ![p] = @ \cup {"connection-success"}]
    /\ pending' = Append(pending, Call("createRouter", p, 0, 0, "", FALSE))
    /\ last' = NoResp("connection", "connection-success")
    /\ UNCHANGED << proc, worker, exitTimer, globals, engine >>

\* The worker answers createRouter: the module-level router is overwritten
\* and the request handlers of that socket are registered.  With the worker
\* dead createRouter rejects: the rejection leaves the connection handler
\* before anything is assigned or registered.
EngineCreateRouter ==
    /\ proc = "up"
    /\ pending # << >>
    /\ Head(pending).op = "createRouter"
    /\ LET p == Head(pending).peer IN
        IF worker = "alive"
        THEN /\ router' = router + 1
             /\ sockets' = [sockets EXCEPT
                               ![p] = IF @ = "connecting" THEN "ready" ELSE @]
             /\ last' = NoResp("connection", "handlersRegistered")
             /\ UNCHANGED proc
        ELSE /\ last' = NoResp("connection", "rejected")
             /\ UnhandledRejection
             /\ UNCHANGED << router, sockets >>
    /\ pending' = Tail(pending)
    /\ UNCHANGED << emitted, worker, exitTimer, producerTransport,
                    consumerTransport, producer, consumer, engine >>

\* socket.on("disconnect"): logs, nothing else.
Disconnect(p) ==
    /\ proc = "up"
    /\ sockets[p] \in {"connecting", "ready"}
    /\ sockets' = [sockets EXCEPT ![p] = "gone"]
    /\ last' = NoResp("disconnect", "logged")
    /\ UNCHANGED << proc, emitted, worker, exitTimer, globals, engine, pending >>

\* A request emitted by a peer that got connection-success while createRouter
\* is still awaited: no handler is registered yet, socket.io drops the event.
RequestOps ==
    { "getRouterRtpCapabilities", "createTransport", "connectProducerTransport",
      "connectConsumerTransport", "transport-produce", "consumeMedia",
      "resumePausedConsumer" }

RequestDropped(p) ==
    /\ proc = "up"
    /\ sockets[p] = "connecting"
    /\ last' = NoResp("request", "dropped")
    /\ UNCHANGED << proc, sockets, emitted, worker, exitTimer, globals, engine,
                    pending >>

\* ----------------------------------------------- getRouterRtpCapabilities
\* Capabilities that would differ from one router to the next.
RouterRtpCapabilitiesPerRouter(r) ==
    { c.mimeType : c \in { d \in mediaCodecs : r = 1 \/ d.kind = "audio" } }

\* router.rtpCapabilities: generated from mediaCodecs alone, the same for
\* every router.
RouterRtpCapabilities(r) == { c.mimeType : c \in mediaCodecs }

\* socket.on("getRouterRtpCapabilities"): synchronous, reads the router the
\* variable holds now and answers with its capabilities.
GetRouterRtpCapabilities(p) ==
    /\ Ready(p)
    /\ last' = Step("getRouterRtpCapabilities", "returned", "success", 0, 0, "")
                  @@ [routerRtpCapabilities |-> RouterRtpCapabilities(router)]
    /\ UNCHANGED << proc, sockets, emitted, worker, exitTimer, globals, engine,
                    pending >>

\* ---------------------------------------------------------- createTransport
\* socket.on("createTransport") up to the await inside createWebRtcTransport:
\* router.createWebRtcTransport is called on the router held at that moment.
CreateTransport(p, sender) ==
    /\ Ready(p)
    /\ CanAwait
    /\ Len(transports)
         + Cardinality({ i \in 1..Len(pending) : pending[i].op = "createTransport" })
         < MaxTransports
    /\ pending' = Append(pending, Call("createTransport", "none", router, 0, "", sender))
    /\ last' = NoResp("createTransport", "await")
    /\ UNCHANGED << proc, sockets, emitted, worker, exitTimer, globals, engine >>

\* What createWebRtcTransport returns, and the handler assigns: the new
\* transport, or undefined when the catch block ran.
CreateWebRtcTransportResult(ok, newId) == IF ok THEN newId ELSE 0

\* The worker answers createWebRtcTransport (ok: it could allocate, which
\* takes a living worker).  The
\* callback gets the parameters or the error; the handler then assigns what
\* createWebRtcTransport returned to producerTransport or consumerTransport.
EngineCreateTransport(ok) ==
    /\ proc = "up"
    /\ pending # << >>
    /\ Head(pending).op = "createTransport"
    /\ ok => worker = "alive"
    /\ LET c == Head(pending)
           newId == Len(transports) + 1
           res == CreateWebRtcTransportResult(ok, newId)
       IN
        /\ transports' =
              IF ok
              THEN Append(transports,
                          [router |-> c.a, state |-> "new", sender |-> c.f])
              ELSE transports
        /\ producerTransport' = IF c.f THEN res ELSE producerTransport
        /\ consumerTransport' = IF c.f THEN consumerTransport ELSE res
        /\ last' = IF ok
                   THEN Step("createTransport", "created", "success",
                             newId, 0, "")
                   ELSE Step("createTransport", "allocFailed", "error",
                             0, 0, "EngineError")
    /\ pending' = Tail(pending)
    /\ UNCHANGED << proc, sockets, emitted, worker, exitTimer, router, producer,
                    consumer, producers,
                    consumers, notes >>

\* ------------------------------------------- connect{Producer,Consumer}Transport
ConnectOps == {"connectProducerTransport", "connectConsumerTransport"}

HeldTransport(op) ==
    IF op = "connectProducerTransport" THEN producerTransport ELSE consumerTransport

\* socket.on("connectProducerTransport" / "connectConsumerTransport") up to
\* the await: transport?.connect() on the transport the variable holds; with
\* the variable undefined the handler awaits undefined and returns.  Neither
\* handler takes a callback.
ConnectTransport(p, op) ==
    /\ Ready(p)
    /\ LET t == HeldTransport(op) IN
        IF t = 0
        THEN /\ last' = NoResp(op, "noTransport")
             /\ UNCHANGED pending
        ELSE /\ CanAwait
             /\ pending' = Append(pending, Call(op, "none", t, 0, "", FALSE))
             /\ last' = NoResp(op, "await")
    /\ UNCHANGED << proc, sockets, emitted, worker, exitTimer, globals, engine >>

\* transport.connect() is accepted once, on an open transport that has never
\* been connected; any other call is rejected by the worker.
ConnectAccepted(t) == transports[t].state = "new"

\* The worker answers connect.  A rejection is thrown out of the handler,
\* which has no try/catch: an unhandled rejection, nothing is sent to the peer.
EngineConnect ==
    /\ proc = "up"
    /\ pending # << >>
    /\ Head(pending).op \in ConnectOps
    /\ LET c == Head(pending) IN
        IF ConnectAccepted(c.a)
        THEN /\ transports' = [transports EXCEPT ![c.a].state = "connected"]
             /\ last' = Step(c.op, "connected", "none", c.a, 0, "")
             /\ UNCHANGED proc
        ELSE /\ last' = Step(c.op, "rejected", "none", c.a, 0, "")
             /\ UnhandledRejection
             /\ UNCHANGED transports
    /\ pending' = Tail(pending)
    /\ UNCHANGED << sockets, emitted, worker, exitTimer, globals, producers,
                    consumers, notes >>

\* --------------------------------------------------------- transport-produce
\* socket.on("transport-produce") up to the await.  With producerTransport
\* undefined, `await undefined` assigns undefined to producer and the callback
\* is invoked with { id: undefined }.  Parameters mediasoup rejects while
\* validating them (valid = FALSE) throw out of the handler before the
\* assignment.  max bounds the producers a run creates.
TransportProduceUpTo(p, kind, valid, max) ==
    /\ Ready(p)
    /\ LET t == producerTransport IN
        IF t = 0
        THEN /\ producer' = 0
             /\ last' = Step("transport-produce", "noTransport", "success", 0, 0, "")
             /\ UNCHANGED << proc, pending >>
        ELSE IF ~valid
        THEN /\ last' = NoResp("transport-produce", "rejected")
             /\ UnhandledRejection
             /\ UNCHANGED << producer, pending >>
        ELSE /\ CanAwait
             /\ Len(producers)
                  + Cardinality({ i \in 1..Len(pending) :
                                    pending[i].op = "transport-produce" })
                  < max
             /\ pending' = Append(pending,
                                  Call("transport-produce", "none", t, 0, kind, FALSE))
             /\ last' = NoResp("transport-produce", "await")
             /\ UNCHANGED << proc, producer >>
    /\ UNCHANGED << sockets, emitted, worker, exitTimer, router,
                    producerTransport, consumerTransport,
                    consumer, engine >>

TransportProduce(p, kind, valid) ==
    TransportProduceUpTo(p, kind, valid, MaxProducers)

\* transport.produce() needs an open transport; it does not look at whether
\* connect() was called.
ProduceAccepted(t) == ~TransportClosed(t)

\* The worker answers produce: the new producer is assigned to the variable,
\* the "transportclose" handler is registered on it and the callback gets its
\* id.  A rejection is thrown out of the handler before the assignment.
EngineProduce ==
    /\ proc = "up"
    /\ pending # << >>
    /\ Head(pending).op = "transport-produce"
    /\ LET c == Head(pending)
           newId == Len(producers) + 1
       IN
        IF ProduceAccepted(c.a)
        THEN /\ producers' = Append(producers,
                   [transport |-> c.a, kind |-> c.kind, closed |-> FALSE])
             /\ producer' = newId
             /\ last' = Step(c.op, "produced", "success", newId, 0, "")
             /\ UNCHANGED proc
        ELSE /\ last' = NoResp(c.op, "rejected")
             /\ UnhandledRejection
             /\ UNCHANGED << producers, producer >>
    /\ pending' = Tail(pending)
    /\ UNCHANGED << sockets, emitted, worker, exitTimer, router,
                    producerTransport, consumerTransport,
                    consumer, transports, consumers, notes >>

\* --------------------------------------------------------------- consumeMedia
\* router.canConsume({ producerId, rtpCapabilities }): the producer is one of
\* the router's open producers and the capabilities hold a codec of its kind.
CanConsume(r, pid, caps) ==
    /\ ~producers[pid].closed
    /\ transports[producers[pid].transport].router = r
    /\ CodecOf(producers[pid].kind) \in caps

\* A consumeMedia handler that would pause nothing.
InitialPausedNever(kind) == FALSE

\* paused: producer?.kind === "video"
InitialPaused(kind) == kind = "video"

\* A consumeMedia handler without the canConsume check.
ConsumeRefusedNever(caps) == FALSE

\* if (!router.canConsume({ producerId: producer?.id, rtpCapabilities })) return
ConsumeRefused(caps) == ~CanConsume(router, producer, caps)

\* socket.on("consumeMedia") up to the await.  The branches, in the code's
\* order: no producer held (nothing is done, the callback is not invoked);
\* canConsume false (logged, return, the callback is not invoked); then
\* consumerTransport?.consume(), which with the variable undefined assigns
\* undefined to consumer and invokes the callback with the held producer's id
\* and an undefined consumer id.
ConsumeMedia(p, caps) ==
    /\ Ready(p)
    /\ IF producer = 0
       THEN /\ last' = NoResp("consumeMedia", "noProducer")
            /\ UNCHANGED << consumer, pending >>
       ELSE IF ConsumeRefused(caps)
       THEN /\ last' = NoResp("consumeMedia", "cannotConsume")
            /\ UNCHANGED << consumer, pending >>
       ELSE IF consumerTransport = 0
       THEN /\ consumer' = 0
            /\ last' = Step("consumeMedia", "noTransport", "success",
                            0, producer, "")
            /\ UNCHANGED pending
       ELSE /\ CanAwait
            /\ Len(consumers)
                 + Cardinality({ i \in 1..Len(pending) :
                                   pending[i].op = "consumeMedia" })
                 < MaxConsumers
            /\ pending' = Append(pending,
                  Call("consumeMedia", "none", consumerTransport, producer,
                       producers[producer].kind,
                       InitialPaused(producers[producer].kind)))
            /\ last' = NoResp("consumeMedia", "await")
            /\ UNCHANGED consumer
    /\ UNCHANGED << proc, sockets, emitted, worker, exitTimer, router,
                    producerTransport, consumerTransport,
                    producer, engine >>

\* transport.consume() needs an open transport and an open producer of the
\* transport's own router; it does not look at whether connect() was called.
ConsumeAccepted(t, pid) ==
    /\ ~TransportClosed(t)
    /\ ~producers[pid].closed
    /\ transports[producers[pid].transport].router = transports[t].router

\* The consumer transport.consume() creates.
NewConsumer(t, pid, kind, paused) ==
    [transport |-> t, producer |-> pid, kind |-> kind, paused |-> paused,
     paused0 |-> paused, closed |-> FALSE]

\* The worker answers consume.  On success the consumer is assigned, its
\* "transportclose" and "producerclose" handlers are registered and the
\* callback gets params built from the variables producer and consumer as
\* they are now.  A rejection is caught and answered with { error }.
EngineConsume ==
    /\ proc = "up"
    /\ pending # << >>
    /\ Head(pending).op = "consumeMedia"
    /\ LET c == Head(pending)
           newId == Len(consumers) + 1
       IN
        IF ConsumeAccepted(c.a, c.b)
        THEN /\ consumers' = Append(consumers, NewConsumer(c.a, c.b, c.kind, c.f))
             /\ consumer' = newId
             /\ last' = Step(c.op, "consumed", "success", newId, producer, "")
        ELSE /\ last' = Step(c.op, "rejected", "error", 0, 0, "EngineError")
             /\ UNCHANGED << consumers, consumer >>
    /\ pending' = Tail(pending)
    /\ UNCHANGED << proc, sockets, emitted, worker, exitTimer, router,
                    producerTransport, consumerTransport,
                    producer, transports, producers, notes >>

\* ------------------------------------------------------- resumePausedConsumer
\* socket.on("resumePausedConsumer") up to the await: consumer?.resume() on
\* the consumer the variable holds.  The handler takes no callback.
ResumePausedConsumer(p) ==
    /\ Ready(p)
    /\ IF consumer = 0
       THEN /\ last' = NoResp("resumePausedConsumer", "noConsumer")
            /\ UNCHANGED pending
       ELSE /\ CanAwait
            /\ pending' = Append(pending,
                  Call("resumePausedConsumer", "none", consumer, 0, "", FALSE))
            /\ last' = NoResp("resumePausedConsumer", "await")
    /\ UNCHANGED << proc, sockets, emitted, worker, exitTimer, globals, engine >>

\* consumer.resume() is accepted while the worker still has the consumer.
ResumeAccepted(c) == ~consumers[c].closed /\ c \notin notes

\* A resume that toggles the flag.
ResumedToggle(rec) == [rec EXCEPT !.paused = ~@]

\* consumer.resume(): the consumer is not paused afterwards.
Resumed(rec) == [rec EXCEPT !.paused = FALSE]

\* The worker answers resume.  A rejection is thrown out of the handler: an
\* unhandled rejection, nothing is sent to the peer.
EngineResume ==
    /\ proc = "up"
    /\ pending # << >>
    /\ Head(pending).op = "resumePausedConsumer"
    /\ LET c == Head(pending) IN
        IF ResumeAccepted(c.a)
        THEN /\ consumers' = [consumers EXCEPT ![c.a] = Resumed(@)]
             /\ last' = Step(c.op, "resumed", "none", c.a, 0, "")
             /\ UNCHANGED proc
        ELSE /\ last' = Step(c.op, "rejected", "none", c.a, 0, "")
             /\ UnhandledRejection
             /\ UNCHANGED consumers
    /\ pending' = Tail(pending)
    /\ UNCHANGED << sockets, emitted, worker, exitTimer, globals, transports,
                    producers, notes >>

\* ------------------------------------------------------------ engine events
OpenProducersOn(t) ==
    { i \in ProducerIds : producers[i].transport = t /\ ~producers[i].closed }

OpenConsumersOn(t) ==
    { i \in ConsumerIds : consumers[i].transport = t /\ ~consumers[i].closed }

\* producer.on("transportclose", () => producer?.close()): the handler of
\* each producer of the closing transport closes the producer the VARIABLE
\* holds at that moment.
ProducerHandlerCloses(t) ==
    IF OpenProducersOn(t) # {} /\ producer # 0 THEN {producer} ELSE {}

\* consumer.on("transportclose", () => consumer?.close()): likewise, the
\* consumer the variable holds.
ConsumerHandlerCloses(t) ==
    IF OpenConsumersOn(t) # {} /\ consumer # 0 THEN {consumer} ELSE {}

\* The producers closed when transport t closes: its own (by mediasoup) and
\* the one the handlers close.
ProducersClosedBy(t) == OpenProducersOn(t) \cup ProducerHandlerCloses(t)

ConsumersClosedBy(t) == OpenConsumersOn(t) \cup ConsumerHandlerCloses(t)

CloseProducers(ps) ==
    [ i \in ProducerIds |->
        IF i \in ps THEN [producers[i] EXCEPT !.closed = TRUE] ELSE producers[i] ]

CloseConsumers(cs) ==
    [ i \in ConsumerIds |->
        IF i \in cs THEN [consumers[i] EXCEPT !.closed = TRUE] ELSE consumers[i] ]

\* The consumers, still open once cs are closed, whose producer is in ps: the
\* worker closes them and notifies "producerclose" over the channel.
Notified(ps, cs) ==
    { i \in ConsumerIds :
        /\ ~consumers[i].closed
        /\ i \notin cs
        /\ consumers[i].producer \in ps }

\* transport.on("dtlsstatechange"): the DTLS state of a connected transport
\* becomes "failed" or "closed".  The handler calls transport.close() for
\* "closed" only.  transport.close() closes the transport's producers and
\* consumers and emits "transportclose" on each, which runs the handlers above.
DtlsStateChange(t, dtlsState) ==
    /\ proc = "up"
    /\ t \in TransportIds
    /\ transports[t].state = "connected"
    /\ IF dtlsState = "closed"
       THEN LET ps == ProducersClosedBy(t)
                cs == ConsumersClosedBy(t)
            IN
             /\ transports' = [transports EXCEPT ![t].state = "closed"]
             /\ producers' = CloseProducers(ps)
             /\ consumers' = CloseConsumers(cs)
             /\ notes' = (notes \cup Notified(ps, cs)) \ cs
       ELSE /\ transports' = [transports EXCEPT ![t].state = "failed"]
            /\ UNCHANGED << producers, consumers, notes >>
    /\ last' = Step("dtlsstatechange", dtlsState, "none", t, 0, "")
    /\ UNCHANGED << proc, sockets, emitted, worker, exitTimer, globals, pending >>

\* consumer.on("producerclose", () => consumer?.close()): the worker's
\* notification reaches consumer c, which mediasoup marks closed; the handler
\* closes the consumer the variable holds.
ProducerClose(c) ==
    /\ proc = "up"
    /\ c \in notes
    /\ LET cs == {c} \cup (IF consumer # 0 THEN {consumer} ELSE {}) IN
        /\ consumers' = CloseConsumers(cs)
        /\ notes' = notes \ cs
    /\ last' = Step("producerclose", "closed", "none", c, 0, "")
    /\ UNCHANGED << proc, sockets, emitted, worker, exitTimer, globals,
                    transports, producers, pending >>

\* -------------------------------------------------------------- worker death
\* A "died" handler that only logs.
ExitNotScheduled(armed) == armed

\* newWorker.on("died"): setTimeout(() => process.exit(), 2000) arms the timer.
ExitScheduled(armed) == TRUE

\* The worker process dies.  mediasoup closes the worker's channel and
\* routers, and with them every transport, producer and consumer (the calls
\* in flight are rejected when their turn comes), then emits "died", whose
\* handler schedules the exit.
WorkerDied ==
    /\ proc = "up"
    /\ worker = "alive"
    /\ worker' = "died"
    /\ exitTimer' = ExitScheduled(exitTimer)
    /\ transports' = [ t \in TransportIds |-> [transports[t] EXCEPT !.state = "closed"] ]
    /\ producers' = CloseProducers(ProducerIds)
    /\ consumers' = CloseConsumers(ConsumerIds)
    /\ notes' = {}
    /\ last' = NoResp("died", "logged")
    /\ UNCHANGED << proc, sockets, emitted, globals, pending >>

\* The timer fires: process.exit().
ProcessExit ==
    /\ proc = "up"
    /\ exitTimer
    /\ proc' = "exited"
    /\ exitTimer' = FALSE
    /\ last' = NoResp("exit", "exited")
    /\ UNCHANGED << worker, sockets, emitted, globals, engine, pending >>

\* ------------------------------------------------------------ specification
Next ==
    \/ \E p \in Peers : Connection(p)
    \/ EngineCreateRouter
    \/ \E p \in Peers : Disconnect(p)
    \/ \E p \in Peers : RequestDropped(p)
    \/ \E p \in Peers : GetRouterRtpCapabilities(p)
    \/ \E p \in Peers, sender \in BOOLEAN : CreateTransport(p, sender)
    \/ \E ok \in BOOLEAN : EngineCreateTransport(ok)
    \/ \E p \in Peers, op \in ConnectOps : ConnectTransport(p, op)
    \/ EngineConnect
    \/ \E p \in Peers, kind \in Kinds, valid \in BOOLEAN : TransportProduce(p, kind, valid)
    \/ EngineProduce
    \/ \E p \in Peers, caps \in CapSets : ConsumeMedia(p, caps)
    \/ EngineConsume
    \/ \E p \in Peers : ResumePausedConsumer(p)
    \/ EngineResume
    \/ \E t \in TransportIds, s \in {"failed", "closed"} : DtlsStateChange(t, s)
    \/ \E c \in ConsumerIds : ProducerClose(c)
    \/ WorkerDied
    \/ ProcessExit

Spec == Init /\ [][Next]_vars

\* The runs in which no peer sends getRouterRtpCapabilities: every step of
\* Next but the answer to that request.
NextBeforeCapabilities ==
    \/ \E p \in Peers : Connection(p)
    \/ EngineCreateRouter
    \/ \E p \in Peers : Disconnect(p)
    \/ \E p \in Peers : RequestDropped(p)
    \/ \E p \in Peers, sender \in BOOLEAN : CreateTransport(p, sender)
    \/ \E ok \in BOOLEAN : EngineCreateTransport(ok)
    \/ \E p \in Peers, op \in ConnectOps : ConnectTransport(p, op)
    \/ EngineConnect
    \/ \E p \in Peers, kind \in Kinds, valid \in BOOLEAN : TransportProduce(p, kind, valid)
    \/ EngineProduce
    \/ \E p \in Peers, caps \in CapSets : ConsumeMedia(p, caps)
    \/ EngineConsume
    \/ \E p \in Peers : ResumePausedConsumer(p)
    \/ EngineResume
    \/ \E t \in TransportIds, s \in {"failed", "closed"} : DtlsStateChange(t, s)
    \/ \E c \in ConsumerIds : ProducerClose(c)
    \/ WorkerDied
    \/ ProcessExit

BeforeCapabilitiesSpec == Init /\ [][NextBeforeCapabilities]_vars

\* The runs of a server with a single peer: A is the only peer that ever
\* connects.  With the second peer left out, these runs are explored up to
\* MaxProducersAlone producers.
Alone == {"A"}

NextAlone ==
    \/ \E p \in Alone : Connection(p)
    \/ EngineCreateRouter
    \/ \E p \in Alone : Disconnect(p)
    \/ \E p \in Alone : RequestDropped(p)
    \/ \E p \in Alone : GetRouterRtpCapabilities(p)
    \/ \E p \in Alone, sender \in BOOLEAN : CreateTransport(p, sender)
    \/ \E ok \in BOOLEAN : EngineCreateTransport(ok)
    \/ \E p \in Alone, op \in ConnectOps : ConnectTransport(p, op)
    \/ EngineConnect
    \/ \E p \in Alone, kind \in Kinds, valid \in BOOLEAN :
          TransportProduceUpTo(p, kind, valid, MaxProducersAlone)
    \/ EngineProduce
    \/ \E p \in Alone, caps \in CapSets : ConsumeMedia(p, caps)
    \/ EngineConsume
    \/ \E p \in Alone : ResumePausedConsumer(p)
    \/ EngineResume
    \/ \E t \in TransportIds, s \in {"failed", "closed"} : DtlsStateChange(t, s)
    \/ \E c \in ConsumerIds : ProducerClose(c)
    \/ WorkerDied
    \/ ProcessExit

AloneSpec == Init /\ [][NextAlone]_vars

\* The event loop runs a timer that is due: the exit scheduled by the "died"
\* handler is not postponed forever.
FairSpec == Spec /\ WF_vars(ProcessExit)

\* ==================================================================== claims
\* A consumer the worker still has: not closed, and not closed by the worker
\* with the notification still on its way.
ConsumerLive(c) == ~consumers[c].closed /\ c \notin notes

\* C1: every signaling request whose handler has run to its end has been
\* answered with exactly one payload, a success or an error.  (The callback is
\* invoked at most once per handler; the formula asks for the one.)
C1_EveryRequestAnswered ==
    (last.op \in RequestOps /\ last.out # "await")
        => last.resp \in {"success", "error"}

\* C2: a consumeMedia request whose rtpCapabilities the router cannot consume
\* the held producer with creates no consumer: the handler ends in that step
\* (no call is left in flight) with the consumers and the variable consumer
\* as they were.
C2_IncompatibleConsumeCreatesNothing ==
    [][ \A p \in Peers, caps \in CapSets :
          ( /\ producer # 0
            /\ ~CanConsume(router, producer, caps)
            /\ ConsumeMedia(p, caps) )
          => ( /\ consumers' = consumers
               /\ consumer' = consumer
               /\ pending' = pending ) ]_vars

\* C2 witness: consumeMedia was just refused for the codec alone: the held
\* producer is open and of the current router, and a receive transport is held.
C2_Witness ==
    /\ last.op = "consumeMedia"
    /\ last.out = "cannotConsume"
    /\ producer # 0
    /\ ~producers[producer].closed
    /\ transports[producers[producer].transport].router = router
    /\ consumerTransport # 0
    /\ ~TransportClosed(consumerTransport)

\* C3: a consumeMedia request refused by the compatibility check is answered
\* with an error payload of kind IncompatibleCapabilities.
C3_IncompatibleAnsweredWithError ==
    (last.op = "consumeMedia" /\ last.out = "cannotConsume")
        => (last.resp = "error" /\ last.err = "IncompatibleCapabilities")

\* C4: every consumer was created paused exactly when its source producer is
\* of kind video.
C4_PausedIffVideo ==
    \A c \in ConsumerIds :
        consumers[c].paused0 = (producers[consumers[c].producer].kind = "video")

\* C4 witness: consumeMedia has just created a consumer of a video producer.
C4_Witness ==
    /\ last.op = "consumeMedia"
    /\ last.out = "consumed"
    /\ producers[consumers[last.id].producer].kind = "video"
    /\ consumers[last.id].paused0

\* C5: when the worker answers resume for a consumer it still has, the
\* consumer is active afterwards and nothing was rejected; if it was active
\* already, the step changes nothing but the request's own bookkeeping.
C5_ResumeIdempotent ==
    [][ (EngineResume /\ ConsumerLive(Head(pending).a)) =>
          LET c == Head(pending).a IN
            /\ ~consumers'[c].paused
            /\ ~consumers'[c].closed
            /\ last'.out = "resumed"
            /\ proc' = proc
            /\ ~consumers[c].paused =>
                  /\ consumers' = consumers
                  /\ UNCHANGED << sockets, globals, transports, producers, notes >>
      ]_vars

\* C5 witness: a consumer created paused has just been resumed, and a second
\* resume of the same, still live consumer is the next call the worker answers.
C5_Witness ==
    /\ last.op = "resumePausedConsumer"
    /\ last.out = "resumed"
    /\ consumers[last.id].paused0
    /\ ~consumers[last.id].paused
    /\ ConsumerLive(last.id)
    /\ pending # << >>
    /\ Head(pending).op = "resumePausedConsumer"
    /\ Head(pending).a = last.id

\* C6: a connect request answered by the worker for a transport that is
\* already connected yields an InvalidState error payload, and the transport
\* stays connected.
C6_SecondConnectInvalidState ==
    [][ (EngineConnect /\ transports[Head(pending).a].state = "connected") =>
          /\ last'.resp = "error"
          /\ last'.err = "InvalidState"
          /\ transports'[Head(pending).a].state = "connected" ]_vars

\* C7: a producer is created only on a transport that is connected at that
\* moment; transport-produce with no send transport held, or answered for a
\* transport that is not connected, fails with InvalidState and creates no
\* producer.
C7_ProduceNeedsConnected ==
    [][ /\ Len(producers') > Len(producers) =>
              transports[producers'[Len(producers')].transport].state = "connected"
        /\ (last'.op = "transport-produce" /\ last'.out = "noTransport") =>
              (last'.resp = "error" /\ last'.err = "InvalidState")
        /\ (EngineProduce /\ transports[Head(pending).a].state # "connected") =>
              /\ last'.resp = "error"
              /\ last'.err = "InvalidState"
              /\ producers' = producers ]_vars

\* C8: a consumer is created, and consumeMedia answered with a descriptor,
\* only on a receive transport that is connected; with no receive transport
\* held, or one that is not connected, the request fails with InvalidState and
\* creates no consumer.
C8_ConsumeNeedsConnected ==
    [][ /\ Len(consumers') > Len(consumers) =>
              transports[consumers'[Len(consumers')].transport].state = "connected"
        /\ (last'.op = "consumeMedia" /\ last'.out = "noTransport") =>
              (last'.resp = "error" /\ last'.err = "InvalidState")
        /\ (EngineConsume /\ transports[Head(pending).a].state # "connected") =>
              /\ last'.resp = "error"
              /\ last'.err = "InvalidState"
              /\ consumers' = consumers ]_vars

\* C9: a consumeMedia request made while no producer is held is answered with
\* a ProducerNotFound error payload.
C9_NoProducerAnsweredWithError ==
    (last.op = "consumeMedia" /\ last.out = "noProducer")
        => (last.resp = "error" /\ last.err = "ProducerNotFound")

\* C10: in every state, for every closed transport, every producer and every
\* consumer created on it is closed, and so is every consumer whose source
\* producer was created on it.
C10_CascadeTotal ==
    \A t \in TransportIds :
        TransportClosed(t) =>
            /\ \A i \in ProducerIds :
                  producers[i].transport = t => producers[i].closed
            /\ \A c \in ConsumerIds :
                  consumers[c].transport = t => consumers[c].closed
            /\ \A c \in ConsumerIds :
                  producers[consumers[c].producer].transport = t
                      => consumers[c].closed

\* The server has nothing left to do on its own: no handler is suspended in a
\* mediasoup call and no worker notification is on its way.
Quiescent == pending = << >> /\ notes = {}

\* C11: once a peer's connection has gone, everything created for it gets
\* closed.  Stated on the runs in which "A" is the only peer that ever
\* connected, so that every transport, producer and consumer was created for
\* A's connection: when A has gone and the server has nothing left to do,
\* none of them is open.
C11_DisconnectTearsDown ==
    (sockets["A"] = "gone" /\ sockets["B"] = "idle" /\ Quiescent) =>
        /\ \A t \in TransportIds : TransportClosed(t)
        /\ \A i \in ProducerIds : producers[i].closed
        /\ \A c \in ConsumerIds : consumers[c].closed

\* A step that an event of peer q's connection causes: its connection event
\* up to and past the createRouter await, its disconnect, or the start of the
\* handler of one of its requests.
EventOf(q) ==
    \/ Connection(q)
    \/ EngineCreateRouter /\ Head(pending).peer = q
    \/ Disconnect(q)
    \/ RequestDropped(q)
    \/ GetRouterRtpCapabilities(q)
    \/ \E sender \in BOOLEAN : CreateTransport(q, sender)
    \/ \E op \in ConnectOps : ConnectTransport(q, op)
    \/ \E kind \in Kinds, valid \in BOOLEAN : TransportProduce(q, kind, valid)
    \/ \E caps \in CapSets : ConsumeMedia(q, caps)
    \/ ResumePausedConsumer(q)

\* C12: while a peer p is connected, no connection event and no request of
\* another peer q changes the router, the send or receive transport, the
\* producer or the consumer that p's next requests operate on.
C12_PeersIsolated ==
    [][ \A p, q \in Peers :
          (p # q /\ sockets[p] = "ready" /\ EventOf(q)) => globals' = globals ]_vars

\* C13: when the worker cannot allocate the transport of a createTransport
\* request, the peer gets an error payload and nothing else changes: the
\* variables still hold what they held, the send or receive transport
\* included, and the engine's objects are as they were.
C13_FailedCreateTransportLeavesState ==
    [][ EngineCreateTransport(FALSE) =>
          /\ last'.resp = "error"
          /\ UNCHANGED << globals, engine >> ]_vars

C15_SameSessionSerialized ==
    [][ (sockets["B"] = "idle" /\ EngineConnect) =>
          Head(pending).a = HeldTransport(Head(pending).op) ]_vars

\* C16: no fabricated success.  A transport-produce answer that carries an id
\* is sent only by the step that created the producer with that id, and a
\* consumeMedia answer that carries a consumer id only by the step that
\* created that consumer; and when the needed transport is not held or the
\* worker rejects the call, the peer is answered with an error and the
\* variable still holds the producer / consumer it held.
C16_NoFabricatedSuccess ==
    [][ /\ (last'.op = "transport-produce" /\ last'.resp = "success" /\ last'.id # 0) =>
              (Len(producers') = Len(producers) + 1 /\ last'.id = Len(producers'))
        /\ (last'.op = "consumeMedia" /\ last'.resp = "success" /\ last'.id # 0) =>
              (Len(consumers') = Len(consumers) + 1 /\ last'.id = Len(consumers'))
        /\ (last'.op = "transport-produce" /\ last'.out \in {"noTransport", "rejected"}) =>
              (last'.resp = "error" /\ producer' = producer)
        /\ (last'.op = "consumeMedia" /\ last'.out \in {"noTransport", "rejected"}) =>
              (last'.resp = "error" /\ consumer' = consumer) ]_vars

\* The open transports of one direction.
OpenTransports(sender) ==
    { t \in TransportIds : transports[t].sender = sender /\ ~TransportClosed(t) }

\* C17: a session has at most one open transport per direction.  Stated on
\* the runs in which "A" is the only peer that ever connected, so that every
\* transport belongs to A's session.
C17_OneTransportPerDirection ==
    sockets["B"] = "idle" =>
        \A sender \in BOOLEAN : Cardinality(OpenTransports(sender)) <= 1

\* C18: when the worker answers a resume for a consumer that is closed
\* because its source producer closed, the request is answered with a
\* NotFound error, the consumer stays closed and nothing else changes.
C18_ResumeAfterCloseNotFound ==
    [][ ( /\ EngineResume
          /\ consumers[Head(pending).a].closed
          /\ producers[consumers[Head(pending).a].producer].closed ) =>
          /\ last'.resp = "error"
          /\ last'.err = "NotFound"
          /\ consumers'[Head(pending).a].closed
          /\ UNCHANGED << proc, sockets, globals, engine >> ]_vars

\* C19: in every state, every consumer whose source producer is closed is
\* closed itself.
C19_ConsumerOfClosedProducerClosed ==
    \A c \in ConsumerIds :
        producers[consumers[c].producer].closed => consumers[c].closed

\* C20: when the source producer of a consumer closes, a producer-closed
\* notification is sent to the consumer's peer.  Stated for the states in
\* which the server has nothing left to do: if the producer of a consumer is
\* closed there, while the consumer's own transport is not, then some event
\* other than the greeting has been emitted to some peer's socket.
C20_ProducerClosedNotified ==
    \A c \in ConsumerIds :
        ( /\ producers[consumers[c].producer].closed
          /\ ~TransportClosed(consumers[c].transport)
          /\ Quiescent ) =>
            \E p \in Peers : emitted[p] \ {"connection-success"} # {}

\* C21: a transport whose DTLS state became failed or closed gets closed, and
\* a closed transport stays closed.  Stated for the states in which the server
\* has nothing left to do: no transport is left there with a failed DTLS state
\* and not closed; and no step reopens a closed transport.
C21_DtlsFailureCloses ==
    [][ /\ \A t \in TransportIds : TransportClosed(t) => transports'[t].state = "closed"
        /\ Quiescent' => \A t \in 1..Len(transports') : transports'[t].state # "failed"
      ]_vars

\* C22: once the worker has died the process eventually exits: the server
\* does not go on serving with a dead worker forever.
C22_WorkerDeathExits == (worker = "died") ~> (proc = "exited")

\* C22 witness: the worker died and the scheduled exit has ended the process.
C22_Witness ==
    /\ worker = "died"
    /\ proc = "exited"
    /\ last.op = "exit"

\* C23: no usable transport exists before the capabilities have been fetched.
\* Checked on the runs in which getRouterRtpCapabilities is never sent, so
\* that every createTransport arrives before any answer to it: no transport
\* is open in any state of such a run.
C23_NoTransportBeforeCapabilities ==
    \A t \in TransportIds : TransportClosed(t)

\* C24: closing a transport closes only what is bound to it.  In the step in
\* which transport t is closed, a producer open on another transport stays
\* open, and so does a consumer open on another transport whose source
\* producer is not on t either.
C24_CloseOnlyOwn ==
    [][ \A t \in TransportIds :
          DtlsStateChange(t, "closed") =>
            /\ \A i \in ProducerIds :
                  (producers[i].transport # t /\ ~producers[i].closed)
                      => ~producers'[i].closed
            /\ \A c \in ConsumerIds :
                  ( /\ consumers[c].transport # t
                    /\ producers[consumers[c].producer].transport # t
                    /\ ~consumers[c].closed )
                      => ~consumers'[c].closed ]_vars

\* C25: the descriptor consumeMedia answers with is consistent: its
\* producerId is the id of the producer the consumer it describes was created
\* from.
C25_DescriptorConsistent ==
    (last.op = "consumeMedia" /\ last.out = "consumed") =>
        last.pid = consumers[last.id].producer

\* C26: a peer whose connection is being handled has been sent
\* connection-success, and no request of a peer that has been sent it is left
\* unhandled, the requests that arrive while createRouter is awaited included.
C26_RequestsAfterGreetingHandled ==
    /\ \A p \in Peers :
          sockets[p] \in {"connecting", "ready"} => "connection-success" \in emitted[p]
    /\ ~(last.op = "request" /\ last.out = "dropped")

====
